---- MODULE Spec2Model ----
(***************************************************************************)
(* Model of src/indexer.py: the batch run of the URL indexer.              *)
(*                                                                         *)
(* The worksheet is a sequence of rows; row 1 is the header row and every  *)
(* later row is <<URL cell, Status cell>> (URL in column 1, Status in      *)
(* column 2, the layout update_cell(row, 2, ...) relies on).  A Status     *)
(* cell is a sequence of characters; the words the program writes are      *)
(* kept as single tokens, a whitespace character is the token " ".         *)
(*                                                                         *)
(* A run is one execution of main().  Every network call of main() is one  *)
(* step; each step draws the outcome of its call (returns, or raises).     *)
(* Runs are numbered; under Spec a run starts only when every earlier run  *)
(* has ended (the scheduler serialises invocations) and the first run      *)
(* finds a sheet at rest.  OneRunSpec is a single run from a sheet in any  *)
(* condition, marks of interrupted or failed earlier runs included.        *)
(***************************************************************************)
EXTENDS Integers, Sequences, FiniteSets, TLC

\* ---------------------------------------------------------------- bounds
NRows   == 3      \* data rows of the worksheet
MaxRuns == 2      \* executions of main()

\* ------------------------------------------------------------- constants
\* BATCH_SIZE = 200 in the source; scaled down so that a sheet of NRows
\* rows can hold more unprocessed rows than one batch takes.
BATCH_SIZE == 2

\* clock ticks per second: the clock is finer than the title's resolution
TicksPerSecond == 2

\* the clock readings are 0..MaxClock
MaxClock == 3
SHEET_HEADER == <<"URL", "Status">>
PING_SERVICES == <<"http://rpc.pingomatic.com/", "http://rpc.twingly.com/">>

None == "None"

\* Status cell contents
EMPTY      == << >>
SPACE      == <<" ">>
PROCESSING == <<"Processing">>
COMPLETED  == <<"Completed">>
ERROR_WP   == <<"Error", " ", "-", " ", "WordPress">>

\* What a Status cell may hold: nothing, a stray blank, or a mark the
\* program wrote.
AnyStatus == {EMPTY, SPACE, PROCESSING, COMPLETED, ERROR_WP}

\* What a Status cell holds in a sheet no run is at work on: nothing, a
\* stray blank, or the mark of a finished batch.
RestingStatus == {EMPTY, SPACE, COMPLETED}

Runs == 1..MaxRuns

UrlOfRow(n) == <<"http://a", "http://b", "http://c", "http://d", "http://e">>[n]

\* --------------------------------------------------------- pure helpers
Range(s) == {s[k] : k \in DOMAIN s}

IsSpace(c) == c = " "

RECURSIVE LStrip(_)
LStrip(s) == IF s # << >> /\ IsSpace(Head(s)) THEN LStrip(Tail(s)) ELSE s

RECURSIVE RStrip(_)
RStrip(s) ==
    IF s # << >> /\ IsSpace(s[Len(s)]) THEN RStrip(SubSeq(s, 1, Len(s) - 1)) ELSE s

\* str.strip()
Strip(s) == RStrip(LStrip(s))

\* column (1-based) of a header name
ColOf(header, name) == CHOOSE c \in DOMAIN header : header[c] = name

\* sheet.get_all_records(): one record per data row, keyed by the header row
get_all_records(sh) ==
    [k \in 1..(Len(sh) - 1) |->
        [h \in Range(sh[1]) |-> sh[k + 1][ColOf(sh[1], h)]]]

\* sheet.update_cell(row, col, value)
update_cell(sh, row, col, value) == [sh EXCEPT ![row][col] = value]

\* faulty variant of the test below: every record counts as unprocessed
IsUnprocessedAny(row) == TRUE

\* faulty variant of the test below: a locked row counts as unprocessed too
IsUnprocessedOrLocked(row) ==
    Strip(row["Status"]) = EMPTY \/ Strip(row["Status"]) = PROCESSING

\* line 94: the test that makes a record unprocessed (str() of a text cell
\* is the cell itself)
IsUnprocessed(row) == Strip(row["Status"]) = EMPTY

\* faulty variant of the row arithmetic below: off by one row
RowNumNext(idx) == idx + 3

\* line 95: the sheet row of the record at enumerate() index idx (row 1 is
\* the header, so the record at index 0 is sheet row 2)
RowNum(idx) == idx + 2

\* lines 92-95: the unprocessed records, in sheet order
RECURSIVE Unprocessed(_, _)
Unprocessed(records, k) ==
    IF k > Len(records) THEN << >>
    ELSE (IF IsUnprocessed(records[k])
            THEN << [url |-> records[k]["URL"], row_num |-> RowNum(k - 1)] >>
            ELSE << >>)
         \o Unprocessed(records, k + 1)

\* lines 93-95: row['Status'] is read for every record and row['URL'] for
\* every unprocessed one; a column the header row does not name raises
\* KeyError
RECURSIVE SelectionRaises(_, _)
SelectionRaises(records, k) ==
    IF k > Len(records) THEN FALSE
    ELSE IF "Status" \notin DOMAIN records[k] THEN TRUE
    ELSE IF IsUnprocessed(records[k]) /\ "URL" \notin DOMAIN records[k] THEN TRUE
    ELSE SelectionRaises(records, k + 1)

\* faulty variant of the test below: the early return is never taken
NeverNoNewUrls(unprocessed) == FALSE

\* line 97: "if not unprocessed_urls"
NoNewUrls(unprocessed) == unprocessed = << >>

\* faulty variant of the cut below: no cap
BatchCutAll(unprocessed) == unprocessed

\* line 101: unprocessed_urls[:BATCH_SIZE]
BatchCut(unprocessed) ==
    SubSeq(unprocessed, 1, IF Len(unprocessed) < BATCH_SIZE
                             THEN Len(unprocessed) ELSE BATCH_SIZE)

\* faulty variants of the values below: a lock that leaves the cell empty,
\* a lock that marks the row done, a resolution that clears the cell, an
\* error mark that clears the cell
LockValueEmpty == EMPTY
LockValueCompleted == COMPLETED
DoneValueEmpty == EMPTY
ErrorValueEmpty == EMPTY

\* the status values the three write loops put in column 2
LockValue == PROCESSING       \* line 105
ErrorValue == ERROR_WP        \* line 123
DoneValue == COMPLETED        \* line 154

\* lines 113-116: the post body, one link item per batch item, in order
\* faulty variant of the operator below: the links are in reverse order
post_contentReversed(b) ==
    [k \in 1..Len(b) |-> [href |-> b[Len(b) + 1 - k].url, text |-> b[Len(b) + 1 - k].url]]

post_content(b) == [k \in 1..Len(b) |-> [href |-> b[k].url, text |-> b[k].url]]

\* What the server does with one HTTP request: answers 2xx, answers with an
\* error status, refuses or drops the connection, or accepts the request and
\* never answers
HttpOutcome == {"ok", "http_error", "transport_error", "silent"}

\* requests.post(url, **kwargs): what the caller gets.  With a timeout
\* argument a silent server ends in requests.exceptions.Timeout, a transport
\* error; without one (the default of requests is no timeout) the call does
\* not return.
Await(kwargs, o) ==
    IF o # "silent" THEN o
    ELSE IF "timeout" \in kwargs THEN "transport_error" ELSE "hang"

\* lines 46-49 and 65-68: the handler of a failed request.  It reads
\* e.response.text: an HTTP error carries a response and the function
\* returns None; a transport error has e.response = None, the attribute
\* access raises AttributeError and that exception leaves the function.
RequestFailed(o) == IF o = "http_error" THEN None ELSE "raise"

\* lines 18-68: post_to_wordpress, given the outcome of the token request
\* and of the post request: the post URL, None, "raise", or "hang" when a
\* request (lines 43 and 60, both without timeout) does not return
post_to_wordpress(token, post) ==
    LET token_res == Await({"data"}, token)
        response == Await({"headers", "json"}, post)
    IN IF token_res = "hang" THEN "hang"
       ELSE IF token_res # "ok" THEN RequestFailed(token_res)
       ELSE IF response = "hang" THEN "hang"
       ELSE IF response # "ok" THEN RequestFailed(response)
       ELSE "http://post"

\* line 112: strftime('%Y-%m-%d %H:%M:%S') of the clock reading t (in ticks):
\* the time to the second
strftime(t) == t \div TicksPerSecond

\* line 112: the title built at clock reading t
Title(t) == <<"Link Index Report: ", strftime(t), " UTC">>

\* faulty variant of the branch below: a failed post is tried again
AfterPostRetry(url) == IF url = None THEN "publish" ELSE "gist"

\* faulty variant of the branch below: the result is not looked at
AfterPostAlwaysGist(url) == "gist"

\* lines 120-124: 'if not post_url' marks the batch and returns, otherwise
\* the run goes on to the gist
AfterPost(url) == IF url = None THEN "mark_error" ELSE "gist"

\* faulty variant of the operator below: the gist URL is pinged even when
\* there is none
urls_to_pingBoth(post_url, gist_url) == <<post_url, gist_url>>

\* line 143
urls_to_ping(post_url, gist_url) ==
    IF gist_url # None THEN <<post_url, gist_url>> ELSE <<post_url>>

\* lines 144-145: the (service, url) pairs in the order the loops visit them
PingPlan(urls) ==
    [k \in 1..(Len(PING_SERVICES) * Len(urls)) |->
        [service |-> PING_SERVICES[((k - 1) \div Len(urls)) + 1],
         url     |-> urls[((k - 1) % Len(urls)) + 1]]]

\* faulty variant of the handler below: the first attempt is the last
AfterPingSkipRest(ok, more) == "resolve"

\* faulty variant of the handler below: a failed ping ends the run
AfterPingAbortOnError(ok, more) ==
    IF ~ok THEN "done" ELSE IF more THEN "ping" ELSE "resolve"

\* lines 146-150: what follows a ping attempt; an exception is printed and
\* the loops go on
AfterPing(ok, more) == IF more THEN "ping" ELSE "resolve"

\* faulty variant of the handler below: a failed read is passed over
AfterReadErrorGoOn == "publish"

\* lines 107-109: an exception while the sheet is opened, read or selected
\* from ends the run
AfterReadError == "done"

\* faulty variant of the handler below: a failed lock write is skipped
AfterLockErrorContinue(more) == IF more THEN "lock" ELSE "publish"

\* lines 107-109: an exception in the read-and-lock block ends the run
AfterLockError(more) == "done"

\* ----------------------------------------------------------------- state
VARIABLES
    sheet,        \* the worksheet (shared by all runs)
    pc,           \* pc[r]: where run r is
    outcome,      \* outcome[r]: how run r ended ("none" while it has not)
    all_records,  \* all_records[r]: what run r read
    batch,        \* batch[r]
    i,            \* i[r]: position of run r in the loop it is in
    writes,       \* writes[r]: the update_cell calls of run r, in order
    wp_posts,     \* wp_posts[r]: the bodies run r handed to post_to_wordpress
    post_url,     \* post_url[r]
    gist_calls,   \* gist_calls[r]: create_gist calls of run r
    gist_url,     \* gist_url[r]
    pings,        \* pings[r]: the ping attempts of run r, in order
    ping_failed,  \* ping_failed[r]: how many of them raised
    post_title,   \* post_title[r]
    now           \* the wall clock, in ticks

vars == <<sheet, pc, outcome, all_records, batch, i, writes, wp_posts,
          post_url, gist_calls, gist_url, pings, ping_failed, post_title, now>>

\* the worksheets with the given header row whose second column is drawn
\* from statuses
SheetsWith(header, statuses) ==
    {<<header>> \o [n \in 1..NRows |-> <<UrlOfRow(n), st[n]>>] :
        st \in [1..NRows -> statuses]}

\* the worksheets laid out as the program expects
Sheets(statuses) == SheetsWith(SHEET_HEADER, statuses)

\* header rows that lack a column the program reads
BadHeaders == {<<"URL", "State">>, <<"Link", "Status">>}

\* no run has started
NoRunYet ==
    /\ pc = [r \in Runs |-> "idle"]
    /\ outcome = [r \in Runs |-> "none"]
    /\ all_records = [r \in Runs |-> << >>]
    /\ batch = [r \in Runs |-> << >>]
    /\ i = [r \in Runs |-> 0]
    /\ writes = [r \in Runs |-> << >>]
    /\ wp_posts = [r \in Runs |-> << >>]
    /\ post_url = [r \in Runs |-> None]
    /\ gist_calls = [r \in Runs |-> 0]
    /\ gist_url = [r \in Runs |-> None]
    /\ pings = [r \in Runs |-> << >>]
    /\ ping_failed = [r \in Runs |-> 0]
    /\ post_title = [r \in Runs |-> None]
    /\ now = 0

Init == sheet \in Sheets(RestingStatus) /\ NoRunYet

\* run r ends with outcome o
End(r, o) == /\ pc' = [pc EXCEPT ![r] = "done"]
             /\ outcome' = [outcome EXCEPT ![r] = o]

\* run r goes on at label l
Goto(r, l) == /\ pc' = [pc EXCEPT ![r] = l]
              /\ UNCHANGED outcome

\* every earlier run has ended
NonOverlapping(r) == \A q \in Runs : q < r => pc[q] = "done"

\* lines 75-85: authentication
Authenticate(r) ==
    /\ pc[r] = "idle"
    /\ \E ok \in BOOLEAN :
        IF ok THEN Goto(r, "read") ELSE End(r, "AuthError")
    /\ UNCHANGED <<sheet, all_records, batch, i, writes, wp_posts, post_url,
                   gist_calls, gist_url, pings, ping_failed>>
    /\ UNCHANGED <<post_title, now>>

\* lines 88-102: read the sheet, select, cut the batch
ReadSheet(r) ==
    /\ pc[r] = "read"
    /\ \E ok \in BOOLEAN :
        IF ~ok \/ SelectionRaises(get_all_records(sheet), 1)
        THEN /\ IF AfterReadError = "done" THEN End(r, "ReadError")
                                           ELSE Goto(r, AfterReadError)
             /\ all_records' = IF ok THEN [all_records EXCEPT ![r] = get_all_records(sheet)]
                                     ELSE all_records
             /\ UNCHANGED <<batch, i>>
        ELSE LET records == get_all_records(sheet)
                 unprocessed_urls == Unprocessed(records, 1)
             IN /\ all_records' = [all_records EXCEPT ![r] = records]
                /\ IF NoNewUrls(unprocessed_urls)
                   THEN /\ End(r, "NoOp")
                        /\ UNCHANGED <<batch, i>>
                   ELSE /\ batch' = [batch EXCEPT ![r] = BatchCut(unprocessed_urls)]
                        /\ i' = [i EXCEPT ![r] = 1]
                        /\ IF Len(BatchCut(unprocessed_urls)) = 0
                           THEN Goto(r, "publish") ELSE Goto(r, "lock")
    /\ UNCHANGED <<sheet, writes, wp_posts, post_url, gist_calls, gist_url,
                   pings, ping_failed>>
    /\ UNCHANGED <<post_title, now>>

\* One update_cell call of run r on batch item i[r], writing value.
\* The call returns ("ok"), or raises with the cell left as it was
\* ("lost"), or raises after the store applied it ("applied").
WriteOutcome == {"ok", "lost", "applied"}

StatusWrite(r, value, res) ==
    /\ writes' = [writes EXCEPT ![r] =
                    Append(@, [row |-> batch[r][i[r]].row_num, value |-> value,
                               res |-> res])]
    /\ sheet' = IF res = "lost" THEN sheet
                ELSE update_cell(sheet, batch[r][i[r]].row_num, 2, value)

\* lines 104-109: one iteration of the lock loop
LockRow(r) ==
    /\ pc[r] = "lock"
    /\ \E res \in WriteOutcome :
        /\ StatusWrite(r, LockValue, res)
        /\ IF res = "ok"
           THEN /\ i' = [i EXCEPT ![r] = @ + 1]
                /\ IF i[r] < Len(batch[r]) THEN Goto(r, "lock")
                                           ELSE Goto(r, "publish")
           ELSE LET next == AfterLockError(i[r] < Len(batch[r]))
                IN IF next = "done"
                   THEN /\ End(r, "LockError")
                        /\ UNCHANGED i
                   ELSE /\ Goto(r, next)
                        /\ i' = [i EXCEPT ![r] = @ + 1]
    /\ UNCHANGED <<all_records, batch, wp_posts, post_url, gist_calls,
                   gist_url, pings, ping_failed>>
    /\ UNCHANGED <<post_title, now>>

\* lines 112-124: build the post, call post_to_wordpress, branch on the result
Publish(r) ==
    /\ pc[r] = "publish"
    /\ post_title' = [post_title EXCEPT ![r] = Title(now)]
    /\ wp_posts' = [wp_posts EXCEPT ![r] = Append(@, post_content(batch[r]))]
    /\ \E token \in HttpOutcome, post \in HttpOutcome :
        LET url == post_to_wordpress(token, post)
        IN IF url = "hang"
           THEN /\ Goto(r, "blocked")
                /\ UNCHANGED <<post_url, i>>
           ELSE IF url = "raise"
           THEN /\ End(r, "PublishRaised")
                /\ UNCHANGED <<post_url, i>>
           ELSE /\ post_url' = [post_url EXCEPT ![r] = url]
                /\ i' = [i EXCEPT ![r] = 1]
                /\ LET next == AfterPost(url)
                   IN IF next = "mark_error" /\ Len(batch[r]) = 0
                      THEN End(r, "Aborted")
                      ELSE Goto(r, next)
    /\ UNCHANGED <<sheet, all_records, batch, writes, gist_calls, gist_url,
                   pings, ping_failed, now>>

\* lines 122-124: one iteration of the 'Error - WordPress' loop
MarkError(r) ==
    /\ pc[r] = "mark_error"
    /\ \E res \in WriteOutcome :
        /\ StatusWrite(r, ErrorValue, res)
        /\ IF res = "ok"
           THEN /\ i' = [i EXCEPT ![r] = @ + 1]
                /\ IF i[r] < Len(batch[r]) THEN Goto(r, "mark_error")
                                           ELSE End(r, "Aborted")
           ELSE /\ End(r, "ErrorWriteRaised")
                /\ UNCHANGED i
    /\ UNCHANGED <<all_records, batch, wp_posts, post_url, gist_calls,
                   gist_url, pings, ping_failed>>
    /\ UNCHANGED <<post_title, now>>

\* lines 127-143: create the feed gist; a failure leaves gist_url = None
CreateGist(r) ==
    /\ pc[r] = "gist"
    /\ gist_calls' = [gist_calls EXCEPT ![r] = @ + 1]
    /\ \E ok \in BOOLEAN :
        gist_url' = [gist_url EXCEPT ![r] = IF ok THEN "http://gist" ELSE None]
    /\ i' = [i EXCEPT ![r] = 1]
    /\ Goto(r, "ping")
    /\ UNCHANGED <<sheet, all_records, batch, writes, wp_posts, post_url,
                   pings, ping_failed>>
    /\ UNCHANGED <<post_title, now>>

\* lines 144-150: one ping attempt
Ping(r) ==
    /\ pc[r] = "ping"
    /\ LET plan == PingPlan(urls_to_ping(post_url[r], gist_url[r]))
       IN /\ pings' = [pings EXCEPT ![r] = Append(@, plan[i[r]])]
          /\ \E o \in HttpOutcome :
                \* no raise_for_status here: only a transport error raises
                LET ok == Await({"data", "headers", "timeout"}, o) # "transport_error" IN
                /\ ping_failed' = [ping_failed EXCEPT ![r] = IF ok THEN @ ELSE @ + 1]
                /\ LET next == AfterPing(ok, i[r] < Len(plan))
                   IN IF next = "done"
                      THEN /\ End(r, "PingRaised")
                           /\ UNCHANGED i
                      ELSE /\ Goto(r, next)
                           /\ i' = [i EXCEPT ![r] = IF next = "ping" THEN @ + 1 ELSE 1]
    /\ UNCHANGED <<sheet, all_records, batch, writes, wp_posts, post_url,
                   gist_calls, gist_url>>
    /\ UNCHANGED <<post_title, now>>

\* lines 153-156: one iteration of the 'Completed' loop
MarkCompleted(r) ==
    /\ pc[r] = "resolve"
    /\ IF Len(batch[r]) = 0
       THEN /\ End(r, "Resolved")
            /\ UNCHANGED <<sheet, writes, i>>
       ELSE \E res \in WriteOutcome :
            /\ StatusWrite(r, DoneValue, res)
            /\ IF res = "ok"
               THEN /\ i' = [i EXCEPT ![r] = @ + 1]
                    /\ IF i[r] < Len(batch[r]) THEN Goto(r, "resolve")
                                               ELSE End(r, "Resolved")
               ELSE /\ End(r, "ResolveWriteRaised")
                    /\ UNCHANGED i
    /\ UNCHANGED <<all_records, batch, wp_posts, post_url, gist_calls,
                   gist_url, pings, ping_failed>>
    /\ UNCHANGED <<post_title, now>>

\* a run starts when every earlier run has ended
Start(r) == NonOverlapping(r) /\ Authenticate(r)

Next ==
    \E r \in Runs :
        \/ Start(r)
        \/ ReadSheet(r)
        \/ LockRow(r)
        \/ Publish(r)
        \/ MarkError(r)
        \/ CreateGist(r)
        \/ Ping(r)
        \/ MarkCompleted(r)

\* runs one after the other, from a sheet at rest
Spec == Init /\ [][Next]_vars

\* one run, from a sheet in any condition earlier runs may have left it in
InitAnySheet ==
    /\ sheet \in Sheets(AnyStatus)
                \cup UNION {SheetsWith(h, AnyStatus) : h \in BadHeaders}
    /\ NoRunYet

NextOneRun ==
    \/ Authenticate(1)
    \/ ReadSheet(1)
    \/ LockRow(1)
    \/ Publish(1)
    \/ MarkError(1)
    \/ CreateGist(1)
    \/ Ping(1)
    \/ MarkCompleted(1)

OneRunSpec == InitAnySheet /\ [][NextOneRun]_vars

\* two invocations that overlap: their steps interleave in any order and
\* the sheet is all they share
OverlapNext ==
    \E r \in {1, 2} :
        \/ Authenticate(r)
        \/ ReadSheet(r)
        \/ LockRow(r)
        \/ Publish(r)
        \/ MarkError(r)
        \/ CreateGist(r)
        \/ Ping(r)
        \/ MarkCompleted(r)

\* the sheet the two find: rows not yet processed and rows done
InitOverlap == sheet \in Sheets({EMPTY, COMPLETED}) /\ NoRunYet

OverlapSpec == InitOverlap /\ [][OverlapNext]_vars

\* One run whose every enabled step is eventually taken: the process is
\* scheduled until it returns, raises, or waits in a call
FairOneRunSpec == OneRunSpec /\ WF_vars(NextOneRun)

\* The wall clock advances.  It is read at line 112 only, so its ticks are
\* taken while a run stands before that line.
Tick ==
    /\ now < MaxClock
    /\ \E r \in Runs : pc[r] = "publish"
    /\ now' = now + 1
    /\ UNCHANGED <<sheet, pc, outcome, all_records, batch, i, writes, wp_posts,
                   post_url, gist_calls, gist_url, pings, ping_failed, post_title>>

\* Two runs, interleaved, on a sheet of new rows, with the clock running
InitClock == sheet \in Sheets({EMPTY}) /\ NoRunYet
ClockNext == OverlapNext \/ Tick
ClockSpec == InitClock /\ [][ClockNext]_vars

\* the worksheets in which a URL may have been submitted more than once
SheetsDupUrl ==
    {<<SHEET_HEADER>> \o [n \in 1..NRows |-> <<u[n], st[n]>>] :
        u \in [1..NRows -> {"http://a", "http://b", "http://c"}],
        st \in [1..NRows -> {EMPTY, COMPLETED}]}

\* One run on such a sheet
InitDupUrl == sheet \in SheetsDupUrl /\ NoRunYet
DupUrlSpec == InitDupUrl /\ [][NextOneRun]_vars

\* ------------------------------------------------- vocabulary of the claims
DataRows == 2..Len(sheet)

\* run r has read the sheet and selected from it
HasRead(r) == all_records[r] # << >> /\ outcome[r] # "ReadError"

\* the Status cell of sheet row n as run r read it
StatusAtRead(r, n) == all_records[r][n - 1]["Status"]

\* a Status cell counts as empty (unprocessed) when nothing but whitespace is in it
Blank(st) == \A k \in DOMAIN st : st[k] = " "

\* sheet row n is a row of run r's batch (rows are told apart by their URL)
InBatch(r, n) == \E k \in DOMAIN batch[r] : batch[r][k].url = sheet[n][1]

\* the sheet row of batch item k of run r
RowOfItem(r, k) == CHOOSE n \in DataRows : sheet[n][1] = batch[r][k].url

\* run r made an update_cell call on sheet row n
Wrote(r, n) == \E k \in DOMAIN writes[r] : writes[r][k].row = n

\* no later run has written to the sheet: the sheet is as run r left it
Current(r) == \A q \in Runs : q > r => writes[q] = << >>

\* every update_cell call of run r returned
AllWritesOk(r) == \A k \in DOMAIN writes[r] : writes[r][k].res = "ok"

\* the k-th Publisher call of run r carried the URL of sheet row n
Handed(r, k, n) == \E j \in DOMAIN wp_posts[r][k] : wp_posts[r][k][j].href = sheet[n][1]

\* sheet row n was handed to the Publisher at most once over all runs
HandedAtMostOnce(n) ==
    \A r \in Runs : \A k \in DOMAIN wp_posts[r] :
        Handed(r, k, n) =>
            \A q \in Runs : \A j \in DOMAIN wp_posts[q] :
                Handed(q, j, n) => (q = r /\ j = k)

\* ------------------------------------------------------------------- C1
\* C1 as stated: a row whose Status cell is non-empty when the run reads the
\* sheet is never in that run's batch and never written by that run.
C1_AsStated ==
    \A r \in Runs : \A n \in DataRows :
        (InBatch(r, n) \/ Wrote(r, n)) => StatusAtRead(r, n) = EMPTY

\* C1 (amended): a row whose Status cell holds anything but whitespace when
\* the run reads the sheet is never in that run's batch and never receives a
\* status write from that run.
C1_SelectionPurity ==
    \A r \in Runs : \A n \in DataRows :
        (InBatch(r, n) \/ Wrote(r, n)) => (HasRead(r) /\ Blank(StatusAtRead(r, n)))

\* a run that read a sheet with a marked row beside unprocessed ones has
\* gone through all its writes
C1_Witness ==
    \E r \in Runs :
        /\ outcome[r] = "Resolved"
        /\ \E n \in DataRows : ~Blank(StatusAtRead(r, n)) /\ sheet[n][2] = StatusAtRead(r, n)
        /\ \E n \in DataRows : InBatch(r, n) /\ Wrote(r, n)

\* ------------------------------------------------------------------- C2
\* C2 as stated: over non-overlapping runs every row is in at most one run's
\* batch and is handed to the Publisher at most once.
C2_AsStated ==
    \A n \in DataRows :
        /\ \A r \in Runs : \A q \in Runs : (InBatch(r, n) /\ InBatch(q, n)) => r = q
        /\ HandedAtMostOnce(n)

\* run r's update_cell call on row n reached the store
Locked(r, n) ==
    \E k \in DOMAIN writes[r] : writes[r][k].row = n /\ writes[r][k].res # "lost"

\* C2 (amended): over non-overlapping runs every row is handed to the
\* Publisher at most once, and a row is in the batch of two runs only when
\* the earlier run's lock step raised before its write to that row reached
\* the store (the row was still empty).
C2_AtMostOnce ==
    \A n \in DataRows :
        /\ HandedAtMostOnce(n)
        /\ \A r \in Runs : \A q \in Runs :
            (r < q /\ InBatch(r, n) /\ InBatch(q, n))
                => (outcome[r] = "LockError" /\ ~Locked(r, n))

\* a row handed to the Publisher by the first run, and a second run that
\* has read the sheet after it
C2_Witness ==
    \E n \in DataRows :
        /\ wp_posts[1] # << >> /\ Handed(1, 1, n)
        /\ InBatch(1, n)
        /\ outcome[2] \in {"NoOp", "Resolved", "Aborted"}

\* ------------------------------------------------------------------- C3
\* the Publisher was called in run r and gave no URL (it returned None or raised)
PublisherFailed(r) == wp_posts[r] # << >> /\ post_url[r] = None

\* C3: if the Publisher fails in any way, then when the run ends every batch
\* row has status 'Error - WordPress' and none has 'Completed' (stated for
\* runs whose status writes all returned).
C3_PublishFailureMarksBatch ==
    \A r \in Runs :
        (pc[r] = "done" /\ PublisherFailed(r) /\ AllWritesOk(r))
            => \A n \in DataRows : InBatch(r, n) => sheet[n][2] = ERROR_WP

\* ------------------------------------------------------------------- C4
\* no step of run r failed and the run is over
RanClean(r) ==
    /\ outcome[r] = "Resolved"
    /\ AllWritesOk(r)
    /\ gist_url[r] # None
    /\ ping_failed[r] = 0

\* C4: when no step of a run fails, at its end every row of the batch is
\* 'Completed' and every row outside the batch has the status it had before.
C4_SuccessfulRun ==
    \A r \in Runs :
        (RanClean(r) /\ Current(r))
            => \A n \in DataRows :
                IF InBatch(r, n) THEN sheet[n][2] = COMPLETED
                                 ELSE sheet[n][2] = StatusAtRead(r, n)

\* a clean run whose batch left empty rows and marked rows outside it
C4_Witness ==
    \E r \in Runs :
        /\ RanClean(r) /\ Current(r)
        /\ \E n \in DataRows : InBatch(r, n)
        /\ \E n \in DataRows : ~InBatch(r, n) /\ Blank(sheet[n][2])
        /\ Len(pings[r]) = 4

\* ------------------------------------------------------------------- C5
\* the sheet rows that were empty when run r read the sheet, in sheet order
EmptyAtRead(r) ==
    SelectSeq([k \in 1..Len(all_records[r]) |-> k + 1],
              LAMBDA n : Blank(StatusAtRead(r, n)))
MinOf(a, b) == IF a < b THEN a ELSE b

\* the rows run r wrote 'Processing' to
WrittenProcessing(r) ==
    {writes[r][k].row : k \in {k \in DOMAIN writes[r] : writes[r][k].value = PROCESSING}}

\* C5 for run r, e being the empty rows it read and m = min(N, k)
BatchIsFirst(r, e, m) ==
    /\ Len(batch[r]) = m
    /\ \A j \in 1..m :
        /\ batch[r][j].row_num = e[j]
        /\ batch[r][j].url = sheet[e[j]][1]
    /\ WrittenProcessing(r) \subseteq {e[j] : j \in 1..m}
    /\ (pc[r] # "lock" /\ outcome[r] # "LockError")
        => /\ WrittenProcessing(r) = {e[j] : j \in 1..m}
           /\ Cardinality(WrittenProcessing(r)) = m
    /\ Current(r) => \A j \in (m + 1)..Len(e) : sheet[e[j]][2] = StatusAtRead(r, e[j])

\* C5: the batch is the first min(N, k) of the k empty rows, in sheet order;
\* once the lock step is through exactly those min(N, k) rows have been
\* written 'Processing', and the other empty rows stay empty for the whole run.
C5_BatchCut ==
    \A r \in Runs :
        (HasRead(r) /\ outcome[r] # "NoOp")
            => BatchIsFirst(r, EmptyAtRead(r),
                            MinOf(BATCH_SIZE, Len(EmptyAtRead(r))))

\* more empty rows than one batch takes: BATCH_SIZE rows locked, one left empty
C5_Witness ==
    \E r \in Runs :
        /\ HasRead(r)
        /\ Len(EmptyAtRead(r)) > BATCH_SIZE
        /\ pc[r] = "publish"
        /\ Cardinality(WrittenProcessing(r)) = BATCH_SIZE
        /\ \E n \in Range(EmptyAtRead(r)) : ~InBatch(r, n) /\ Blank(sheet[n][2])

\* ------------------------------------------------------------------- C6
\* C6: ping failures are isolated: whatever ping attempts fail, a ping step
\* changes no row's status and leads to the next ping or to the resolve
\* step, and a run that resolves has made every batch row 'Completed'.
C6_PingFailuresIsolated ==
    /\ [][\A r \in Runs :
            pc[r] = "ping" => (sheet' = sheet /\ pc'[r] \in {"ping", "resolve"})]_vars
    /\ [](\A r \in Runs :
            (outcome[r] = "Resolved" /\ Current(r))
                => \A n \in DataRows : InBatch(r, n) => sheet[n][2] = COMPLETED)

\* every ping attempt of a run failed and the run resolved its batch
C6_Witness ==
    \E r \in Runs :
        /\ outcome[r] = "Resolved"
        /\ Len(pings[r]) = 4
        /\ ping_failed[r] = Len(pings[r])
        /\ \E n \in DataRows : InBatch(r, n) /\ sheet[n][2] = COMPLETED

\* ------------------------------------------------------------------- C7
\* run r resolved every row that was empty when it read the sheet
ResolvedAll(r) ==
    /\ outcome[r] = "Resolved"
    /\ \A n \in DataRows : Blank(StatusAtRead(r, n)) => InBatch(r, n)

\* run r did nothing to the outside world
NoSideEffect(r) ==
    /\ writes[r] = << >>
    /\ wp_posts[r] = << >>
    /\ gist_calls[r] = 0
    /\ pings[r] = << >>

\* C7: when a run has resolved all rows without failure, the run that
\* follows selects an empty batch and makes no status write, no Publisher
\* call and no notification.
C7_Idempotence ==
    \A r \in Runs :
        (r + 1 \in Runs /\ ResolvedAll(r))
            => /\ batch[r + 1] = << >>
               /\ NoSideEffect(r + 1)
               /\ pc[r + 1] = "done" => outcome[r + 1] \in {"AuthError", "ReadError", "NoOp"}

\* a run resolved a non-empty batch and the next run read the sheet and ended
C7_Witness ==
    /\ ResolvedAll(1)
    /\ batch[1] # << >>
    /\ HasRead(2)
    /\ outcome[2] = "NoOp"

\* ------------------------------------------------------------------- C8
\* a change of a Status cell that follows the row lifecycle
LifecycleStep(old, new) ==
    \/ Blank(old) /\ new = PROCESSING
    \/ old = PROCESSING /\ new \in {COMPLETED, ERROR_WP}

\* C8: every status write moves a row along
\* empty -> Processing -> {Completed | Error-*}: no step changes a Status
\* cell in any other way, and every update_cell call that reaches the store
\* makes such a move.
C8_RowLifecycle ==
    [][/\ \A n \in DataRows :
            sheet'[n][2] # sheet[n][2] => LifecycleStep(sheet[n][2], sheet'[n][2])
       /\ \A r \in Runs :
            writes'[r] # writes[r] =>
                LET w == writes'[r][Len(writes'[r])]
                IN /\ w.row \in DataRows
                   /\ w.res # "lost" => LifecycleStep(sheet[w.row][2], w.value)
                   /\ w.res = "lost" => sheet' = sheet]_vars

\* rows that went through the whole lifecycle, one to each end
C8_Witness ==
    /\ HasRead(1) /\ HasRead(2)
    /\ \E n \in DataRows : Blank(StatusAtRead(1, n)) /\ sheet[n][2] = COMPLETED
    /\ \E n \in DataRows : Blank(StatusAtRead(2, n)) /\ sheet[n][2] = ERROR_WP

\* ------------------------------------------------------------------- C9
\* C9: when the read yields no row with empty status the run ends there,
\* with no status write, no Publisher call, no gist creation and no ping.
C9_NoOpRun ==
    \A r \in Runs :
        (HasRead(r) /\ \A n \in DataRows : ~Blank(StatusAtRead(r, n)))
            => /\ pc[r] = "done"
               /\ outcome[r] = "NoOp"
               /\ batch[r] = << >>
               /\ NoSideEffect(r)

\* a run read a sheet whose rows were all marked, and ended
C9_Witness ==
    \E r \in Runs :
        /\ HasRead(r)
        /\ \A n \in DataRows : ~Blank(StatusAtRead(r, n))
        /\ outcome[r] = "NoOp"

\* ------------------------------------------------------------------ C10
\* C10: if the i-th 'Processing' write of the lock step raises, the run
\* stops there: the i-1 rows locked before keep 'Processing', the batch rows
\* after the i-th keep their empty status, and nothing else is done.
C10_PartialLockFailure ==
    \A r \in Runs : \A k \in DOMAIN writes[r] :
        (writes[r][k].value = PROCESSING /\ writes[r][k].res # "ok")
            => /\ pc[r] = "done"
               /\ Len(writes[r]) = k
               /\ wp_posts[r] = << >> /\ gist_calls[r] = 0 /\ pings[r] = << >>
               /\ Current(r) =>
                    /\ \A j \in 1..(k - 1) : sheet[RowOfItem(r, j)][2] = PROCESSING
                    /\ \A j \in (k + 1)..Len(batch[r]) :
                        /\ Blank(sheet[RowOfItem(r, j)][2])
                        /\ sheet[RowOfItem(r, j)][2] = StatusAtRead(r, RowOfItem(r, j))

\* the second lock write of a batch of two raised: one row locked before it
C10_Witness ==
    \E r \in Runs :
        /\ outcome[r] = "LockError"
        /\ Len(writes[r]) = 2
        /\ sheet[RowOfItem(r, 1)][2] = PROCESSING
        /\ Current(r)

\* ------------------------------------------------------------------ C11
\* run a holds sheet row n locked: its 'Processing' write to n reached the
\* store and it has made no later write to n
HoldsLock(a, n) ==
    \E k \in DOMAIN writes[a] :
        /\ writes[a][k].row = n
        /\ writes[a][k].value = PROCESSING
        /\ writes[a][k].res # "lost"
        /\ \A j \in DOMAIN writes[a] : j > k => writes[a][j].row # n

\* C11: with two runs interleaved on one sheet, when run b reads the sheet
\* while run a holds row n locked (written 'Processing', not yet resolved),
\* n is not in b's batch.
C11_LockExcludes ==
    [][\A a \in Runs : \A b \in Runs : \A n \in DataRows :
        (a # b /\ all_records[b] = << >> /\ all_records'[b] # << >> /\ HoldsLock(a, n))
            => ~InBatch(b, n)']_vars

\* run 2 read the sheet while run 1 held a row locked, and took another row
C11_Witness ==
    /\ pc[1] \in {"lock", "publish", "gist", "ping", "resolve", "mark_error"}
    /\ pc[2] = "lock"
    /\ \E n \in DataRows :
        /\ HoldsLock(1, n)
        /\ all_records[2][n - 1]["Status"] = PROCESSING
        /\ ~InBatch(2, n)

\* ------------------------------------------------------------------ C12
\* C12: a store failure before locking (the sheet cannot be opened or read,
\* or a column the program reads is missing) ends the run with no row
\* touched: a run that is past the read without a batch has ended, has made
\* no status write, Publisher call, gist or ping, and a step without a
\* status write leaves the sheet as it is.
C12_StoreFailureBeforeLock ==
    /\ [](\A r \in Runs :
            (pc[r] \notin {"idle", "read"} /\ batch[r] = << >>)
                => /\ pc[r] = "done"
                   /\ outcome[r] \in {"AuthError", "ReadError", "NoOp"}
                   /\ NoSideEffect(r))
    /\ [][(\A r \in Runs : writes'[r] = writes[r]) => sheet' = sheet]_vars

\* the read of a sheet without its Status column raised, with unprocessed
\* rows in the sheet
C12_Witness ==
    \E r \in Runs :
        /\ outcome[r] = "ReadError"
        /\ sheet[1] # SHEET_HEADER
        /\ all_records[r] # << >>
        /\ \E n \in DataRows : Blank(sheet[n][2])
        /\ NoSideEffect(r)

\* ------------------------------------------------------------------ C13
\* C13: the Publisher is invoked at most once per run.
C13_PublisherAtMostOnce ==
    \A r \in Runs : Len(wp_posts[r]) <= 1

\* a run whose one Publisher call failed has ended without a second call
C13_Witness ==
    \E r \in Runs :
        /\ outcome[r] = "Aborted"
        /\ batch[r] # << >>
        /\ Len(wp_posts[r]) = 1

\* ------------------------------------------------------------------ C14
\* run r wrote 'Completed' to some row
WroteCompleted(r) == \E k \in DOMAIN writes[r] : writes[r][k].value = COMPLETED

\* C14: after a publish failure the run does not notify or complete: it
\* creates no gist, sends no ping and writes 'Completed' to no row.
C14_NoNotifyAfterPublishFailure ==
    \A r \in Runs :
        PublisherFailed(r)
            => /\ gist_calls[r] = 0
               /\ pings[r] = << >>
               /\ ~WroteCompleted(r)
               /\ pc[r] \notin {"gist", "ping", "resolve"}

\* the Publisher returned None, the batch was marked and the run is over
C14_Witness ==
    \E r \in Runs :
        /\ PublisherFailed(r)
        /\ outcome[r] = "Aborted"
        /\ \E k \in DOMAIN writes[r] : writes[r][k].value = ERROR_WP
        /\ gist_calls[r] = 0 /\ pings[r] = << >>

\* ------------------------------------------------------------------ C15
\* C15: once selection has produced a non-empty batch, the run eventually
\* terminates, whatever fails; no step waits forever.
C15_RunTerminates ==
    \A r \in Runs : (batch[r] # << >>) ~> (pc[r] = "done")

\* ------------------------------------------------------------------ C16
\* sheet row n is a row of run r's batch
IsBatchRow(r, n) == \E k \in DOMAIN batch[r] : batch[r][k].row_num = n

\* C16 as stated: the body lists every URL of the batch exactly once as a
\* link, in batch order, and holds no URL of a row outside the batch.
C16_AsStated ==
    \A r \in Runs :
        wp_posts[r] # << >> =>
            LET body == wp_posts[r][1]
            IN /\ \A k \in DOMAIN batch[r] :
                    \E j \in DOMAIN body :
                        /\ body[j].href = batch[r][k].url
                        /\ \A l \in DOMAIN body : body[l].href = batch[r][k].url => l = j
               /\ \A n \in DataRows :
                    ~IsBatchRow(r, n) => \A j \in DOMAIN body : body[j].href # sheet[n][1]

\* C16, amended: the body holds one link per batch row and nothing else; the
\* k-th link has the URL of the k-th batch row as target and as text, and
\* the batch rows are in sheet order.
C16_BodyListsBatchRows ==
    \A r \in Runs :
        wp_posts[r] # << >> =>
            LET body == wp_posts[r][1]
            IN /\ Len(body) = Len(batch[r])
               /\ \A k \in DOMAIN batch[r] :
                    /\ body[k].href = sheet[batch[r][k].row_num][1]
                    /\ body[k].text = sheet[batch[r][k].row_num][1]
                    /\ \A j \in DOMAIN batch[r] :
                        k < j => batch[r][k].row_num < batch[r][j].row_num

\* a batch of two rows with two URLs was published while a row outside the
\* batch holds one of them
C16_Witness ==
    \E r \in Runs :
        /\ wp_posts[r] # << >>
        /\ Len(batch[r]) = 2
        /\ batch[r][1].url # batch[r][2].url
        /\ \E n \in DataRows : ~IsBatchRow(r, n) /\ sheet[n][1] = batch[r][1].url

\* ------------------------------------------------------------------ C17
\* C17: the title is distinct per run: any two different runs that reach the
\* publish step produce different titles.
C17_DistinctTitles ==
    \A r1 \in Runs : \A r2 \in Runs :
        (r1 # r2 /\ wp_posts[r1] # << >> /\ wp_posts[r2] # << >>)
            => post_title[r1] # post_title[r2]

\* ------------------------------------------------------------------ C18
\* the URLs run r has to announce: the post, and the gist when there is one
PingTargets(r) ==
    {post_url[r]} \cup (IF gist_url[r] # None THEN {gist_url[r]} ELSE {})

\* run r attempted every (endpoint, url) pair exactly once and nothing else
PingedEachOnce(r) ==
    /\ \A k \in DOMAIN pings[r] :
        /\ pings[r][k].service \in Range(PING_SERVICES)
        /\ pings[r][k].url \in PingTargets(r)
    /\ \A s \in Range(PING_SERVICES) : \A u \in PingTargets(r) :
        \E k \in DOMAIN pings[r] :
            /\ pings[r][k] = [service |-> s, url |-> u]
            /\ \A j \in DOMAIN pings[r] : pings[r][j] = pings[r][k] => j = k

\* the first Len(batch[r]) writes of run r are 'Processing' writes to the
\* batch rows, in order, and all returned
LockedWholeBatch(r) ==
    /\ Len(writes[r]) >= Len(batch[r])
    /\ \A k \in DOMAIN batch[r] :
        writes[r][k] = [row |-> batch[r][k].row_num, value |-> PROCESSING,
                        res |-> "ok"]

\* C18: the Publisher is called only after every batch row was successfully
\* written 'Processing' (after a failed lock write it is never called), and
\* 'Completed' is written only after the Publisher returned a URL and every
\* (endpoint, url) ping was attempted.
C18_StepOrder ==
    \A r \in Runs :
        /\ wp_posts[r] # << >> => LockedWholeBatch(r)
        /\ outcome[r] = "LockError" => wp_posts[r] = << >>
        /\ WroteCompleted(r) =>
            /\ wp_posts[r] # << >>
            /\ post_url[r] # None
            /\ PingedEachOnce(r)

\* a run that saw a ping fail completed its two rows after four attempts
C18_Witness ==
    \E r \in Runs :
        /\ WroteCompleted(r)
        /\ Len(batch[r]) = 2
        /\ gist_url[r] # None
        /\ ping_failed[r] > 0
        /\ Len(pings[r]) = 2 * Len(PING_SERVICES)

\* ------------------------------------------------------------------ C19
\* the k-th write of run r belongs to the resolution (it follows the lock
\* writes) and failed
ResolutionWriteFailed(r, k) ==
    /\ k \in DOMAIN writes[r]
    /\ k > Len(batch[r])
    /\ writes[r][k].res # "ok"

\* C19: when a status write fails during resolution ('Completed' or
\* 'Error - WordPress'), the run stops there: it makes no further write, the
\* batch rows not yet written keep 'Processing', and no batch row is
\* returned to empty.
C19_ResolutionWriteFailure ==
    \A r \in Runs : \A k \in DOMAIN writes[r] :
        ResolutionWriteFailed(r, k)
            => /\ pc[r] = "done"
               /\ outcome[r] \in {"ResolveWriteRaised", "ErrorWriteRaised"}
               /\ Len(writes[r]) = k
               /\ \A j \in DOMAIN batch[r] :
                    /\ j > k - Len(batch[r])
                        => sheet[batch[r][j].row_num][2] = PROCESSING
                    /\ ~Blank(sheet[batch[r][j].row_num][2])

\* the second 'Error - WordPress' write failed: the first row is marked, the
\* second is still 'Processing'
C19_Witness ==
    \E r \in Runs :
        /\ outcome[r] = "ErrorWriteRaised"
        /\ Len(batch[r]) = 2
        /\ Len(writes[r]) = 4
        /\ writes[r][4].res = "lost"
        /\ sheet[batch[r][1].row_num][2] = ERROR_WP
        /\ sheet[batch[r][2].row_num][2] = PROCESSING

\* ------------------------------------------------------------------ C20
\* the gist call of run r failed
GistFailed(r) == gist_calls[r] > 0 /\ gist_url[r] = None /\ pc[r] # "gist"

\* C20: a gist failure never aborts the run and never marks an error: the
\* run pings every endpoint with the post URL only (with post and gist URL
\* when the gist succeeded), one attempt per pair, and then writes
\* 'Completed' to every batch row.
C20_GistFailureIsolated ==
    \A r \in Runs :
        /\ GistFailed(r) =>
            /\ outcome[r] \notin {"Aborted", "ErrorWriteRaised"}
            /\ \A k \in DOMAIN writes[r] : writes[r][k].value # ERROR_WP
            /\ \A k \in DOMAIN pings[r] : pings[r][k].url = post_url[r]
            /\ (pc[r] = "done" /\ AllWritesOk(r)) =>
                /\ outcome[r] = "Resolved"
                /\ \A j \in DOMAIN batch[r] : sheet[batch[r][j].row_num][2] = COMPLETED
        /\ (gist_calls[r] > 0 /\ pc[r] \in {"resolve", "done"}) =>
            /\ PingedEachOnce(r)
            /\ Len(pings[r]) = Len(PING_SERVICES) * Cardinality(PingTargets(r))

\* the gist failed, each endpoint was pinged once with the post URL, and the
\* batch was completed
C20_Witness ==
    \E r \in Runs :
        /\ GistFailed(r)
        /\ outcome[r] = "Resolved"
        /\ batch[r] # << >>
        /\ Len(pings[r]) = Len(PING_SERVICES)
        /\ \A j \in DOMAIN batch[r] : sheet[batch[r][j].row_num][2] = COMPLETED

====
